---- MODULE Spec2Model ----
(***************************************************************************)
(* A model of the dns-mesh-sidecar DNS proxy: the domain matcher          *)
(* (pkg/matcher) as operators over character sequences, and the query     *)
(* pipeline (handler, fetcher, update consumer) as a state machine.        *)
(*                                                                         *)
(* A string is a sequence of one-character strings, so that trimming,     *)
(* lower-casing, splitting on "." and joining are computed as the Go       *)
(* code computes them.                                                     *)
(***************************************************************************)
EXTENDS Integers, Sequences, FiniteSets, TLC

(***************************************************************************)
(* Bounds of the matcher inputs.                                           *)
(***************************************************************************)
\* most labels in the base of a generated rule (queries get one more)
MaxLabels == 2
\* most rules in a generated rule list
MaxRules == 2

\* the alphabet of the top-level label and of the labels below it
TopLabels == {"a"}
Labels == {"a", "b"}

VARIABLES
    rules,      \* matcher check: the raw rule list given to BuildMatcher
    query,      \* matcher check: the raw query string given to Match
    matcher,    \* matcher check: the matcher built from rules
    result,     \* matcher check: the MatchResult of Match(matcher, query)
    mpc,        \* matcher check: "build", "match" or "done" ("off" in the pipeline)
    opMode,     \* DNS_MESH_OPERATIONAL_MODE, read once at start
    env,        \* the environment of one behaviour: the responses the controller
                \* may serve, the ticks of the fetcher, the queries that arrive
    ticker,     \* the period of the time.Ticker made in Fetcher.Start
    hMatcher,   \* Handler.Matcher
    hDryRun,    \* Handler.DryRun
    hHTTPSMode, \* Handler.HTTPSModeEnabled
    hDoHClient, \* Handler.DoHClient: NilClient or the material it was built from
    mu,         \* Handler.mu, the sync.RWMutex: its writer and its readers
    cfgDryRun,  \* Config.DryRun, written through Fetcher.dryRun
    cfgHTTPSMode, \* Config.HTTPSModeEnabled
    cfgTLS,     \* Config.tlsClientCertData, tlsClientKeyData, tlsCACertData
    cfgFetchInterval, \* Config.FetchInterval, a time.Duration
    updateChannel, \* the chan []string between fetcher and update consumer
    fpc,        \* position of the fetcher goroutine in fetchPolicies
    fresp,      \* the ControllerResponse the fetcher is working on
    fetches,    \* fetchPolicies calls started so far
    cpc,        \* position of the update consumer goroutine
    cList,      \* the list the consumer received and the matcher it built
    workers,    \* the query workers (HandleUDP / HandleTCP goroutines)
    udpBuffer,  \* the read buffer of the UDP listener: the message last read
    flog,       \* history: the latest fetchPolicies call and the calls it made
    sent,       \* history: the lists sent on the update channel, in order
    published   \* history: the matchers passed to UpdateMatcher, in order

mvars == <<rules, query, matcher, result, mpc>>

hvars == <<hMatcher, hDryRun, hHTTPSMode, hDoHClient>>

\* Handler.mu with no holder
Unlocked == [writer |-> "none", readers |-> {}]

\* Handler.mu.Lock() returns to who: no writer and no reader holds the lock
Lock(who) ==
    /\ mu = Unlocked
    /\ mu' = [mu EXCEPT !.writer = who]

\* Handler.mu.Unlock()
Unlock == mu' = Unlocked

\* Handler.mu.RLock() returns to worker w: no writer holds the lock
RLock(w) ==
    /\ mu.writer = "none"
    /\ mu' = [mu EXCEPT !.readers = @ \cup {w}]

\* Handler.mu.RUnlock() by worker w
RUnlock(w) == mu' = [mu EXCEPT !.readers = @ \ {w}]

cfgvars == <<cfgDryRun, cfgHTTPSMode, cfgTLS, cfgFetchInterval>>

fvars == <<fpc, fresp, fetches>>

cvars == <<cpc, cList>>

bootvars == <<opMode, env, ticker>>

gvars == <<flog, sent, published>>

pvars == <<bootvars, hvars, mu, cfgvars, updateChannel, fvars, cvars, workers,
           udpBuffer, gvars>>

(***************************************************************************)
(* strings                                                                 *)
(***************************************************************************)
EmptyStr == <<>>

\* strings.ToLower on one character of the modelled alphabet
LowerChar(c) ==
    CASE c = "A" -> "a"
      [] c = "B" -> "b"
      [] OTHER -> c

\* strings.ToLower
ToLower(s) == [i \in 1..Len(s) |-> LowerChar(s[i])]

UpperChar(c) ==
    CASE c = "a" -> "A"
      [] c = "b" -> "B"
      [] OTHER -> c

ToUpper(s) == [i \in 1..Len(s) |-> UpperChar(s[i])]

\* strings.TrimSuffix(s, "."): removes one trailing dot
TrimSuffixDot(s) ==
    IF Len(s) > 0 /\ s[Len(s)] = "." THEN SubSeq(s, 1, Len(s) - 1) ELSE s

RECURSIVE TrimLeft(_)
TrimLeft(s) ==
    IF Len(s) > 0 /\ s[1] = " " THEN TrimLeft(Tail(s)) ELSE s

RECURSIVE TrimRight(_)
TrimRight(s) ==
    IF Len(s) > 0 /\ s[Len(s)] = " " THEN TrimRight(SubSeq(s, 1, Len(s) - 1)) ELSE s

\* strings.TrimSpace
TrimSpace(s) == TrimRight(TrimLeft(s))

\* strings.HasPrefix(s, "*.")
HasWildPrefix(s) == Len(s) >= 2 /\ s[1] = "*" /\ s[2] = "."

\* strings.TrimPrefix(s, "*.")
TrimWildPrefix(s) == IF HasWildPrefix(s) THEN SubSeq(s, 3, Len(s)) ELSE s

\* strings.Split(s, "."): the labels of s; Split("") is one empty label
RECURSIVE Split(_)
Split(s) ==
    IF \A i \in 1..Len(s) : s[i] # "."
    THEN <<s>>
    ELSE LET k == CHOOSE i \in 1..Len(s) :
                      s[i] = "." /\ \A j \in 1..(i - 1) : s[j] # "."
         IN  <<SubSeq(s, 1, k - 1)>> \o Split(SubSeq(s, k + 1, Len(s)))

\* strings.Join(parts, ".")
RECURSIVE Join(_)
Join(parts) ==
    IF Len(parts) = 0 THEN EmptyStr
    ELSE IF Len(parts) = 1 THEN parts[1]
    ELSE parts[1] \o <<".">> \o Join(Tail(parts))

\* strings.Count(s, ".")
CountDots(s) == Cardinality({i \in 1..Len(s) : s[i] = "."})

Reverse(seq) == [i \in 1..Len(seq) |-> seq[Len(seq) + 1 - i]]

(***************************************************************************)
(* pkg/matcher                                                             *)
(***************************************************************************)
RExact == 0
RWildcard == 1

\* idna.Lookup.ToASCII on names of ASCII letters, dots and spaces: the UTS 46
\* mapping lower-cases; the error (and with it any validation) is discarded
\* by the caller, which keeps the returned string
IdnaToASCII(s) == ToLower(s)

\* normalizeDomain, first result (the canonical name)
normalizeDomain(d) == IdnaToASCII(TrimSpace(TrimSuffixDot(ToLower(d))))

reverseLabels(d) == Join(Reverse(Split(d)))

\* radix.Tree.Insert: the value under an existing key is replaced
RadixInsert(wild, key, val) ==
    {p \in wild : p[1] # key} \cup {<<key, val>>}

RadixHas(wild, key) == \E p \in wild : p[1] = key

RadixGet(wild, key) == (CHOOSE p \in wild : p[1] = key)[2]

EmptyMatcher == [exact |-> {}, wild |-> {}, matchAll |-> FALSE]

\* AddRule with the catch-all flag assigned on every rule instead of only set
AddRuleLastWins(m, raw) ==
    LET r == TrimSpace(raw) IN
    IF r = EmptyStr THEN m
    ELSE IF r = <<"*">> THEN [m EXCEPT !.matchAll = TRUE]
    ELSE LET isWildcard == HasWildPrefix(r)
             base == IF isWildcard THEN TrimWildPrefix(r) ELSE r
             canon == normalizeDomain(base)
         IN  IF canon = EmptyStr THEN m
             ELSE IF isWildcard
                  THEN [m EXCEPT !.wild = RadixInsert(@, reverseLabels(canon), canon),
                                 !.matchAll = FALSE]
                  ELSE [m EXCEPT !.exact = @ \cup {canon}, !.matchAll = FALSE]

\* one iteration of the loop of BuildMatcher over a raw rule
AddRule(m, raw) ==
    LET r == TrimSpace(raw) IN
    IF r = EmptyStr THEN m
    ELSE IF r = <<"*">> THEN [m EXCEPT !.matchAll = TRUE]
    ELSE LET isWildcard == HasWildPrefix(r)
             base == IF isWildcard THEN TrimWildPrefix(r) ELSE r
             canon == normalizeDomain(base)
         IN  IF canon = EmptyStr THEN m
             ELSE IF isWildcard
                  THEN [m EXCEPT !.wild = RadixInsert(@, reverseLabels(canon), canon)]
                  ELSE [m EXCEPT !.exact = @ \cup {canon}]

RECURSIVE BuildFrom(_, _)
BuildFrom(m, rs) ==
    IF Len(rs) = 0 THEN m ELSE BuildFrom(AddRule(m, Head(rs)), Tail(rs))

\* BuildMatcher; the bloom filter (more than 10000 rules) is only probed and
\* its answer discarded by Match, so it is left out
BuildMatcher(rs) == BuildFrom(EmptyMatcher, rs)

NoMatch == [Matched |-> FALSE, Rule |-> EmptyStr, Type |-> RExact]

\* ValidHit admitting the apex
ValidHitGeq(qLabels, rLabels) == qLabels >= rLabels

\* the label-count guard of a wildcard hit
ValidHit(qLabels, rLabels) == qLabels > rLabels

\* BetterHit keeping the first hit
BetterHitFirst(prefixLen, bestLen) == bestLen = 0

\* whether a hit under prefix replaces the best so far
BetterHit(prefixLen, bestLen) == prefixLen > bestLen

\* the loop over the reversed prefixes: i is the next prefix length in labels,
\* best the record <<found, val, len>> kept so far
RECURSIVE WildLoop(_, _, _, _, _)
WildLoop(m, q, parts, i, best) ==
    IF i > Len(parts) THEN best
    ELSE LET prefix == Join(SubSeq(parts, 1, i))
             hit == RadixHas(m.wild, prefix)
             val == RadixGet(m.wild, prefix)
             take == /\ hit
                     /\ ValidHit(CountDots(q) + 1, CountDots(val) + 1)
                     /\ BetterHit(Len(prefix), best.len)
             next == IF take
                     THEN [found |-> TRUE, val |-> val, len |-> Len(prefix)]
                     ELSE best
         IN  WildLoop(m, q, parts, i + 1, next)

WildBest(m, q) ==
    WildLoop(m, q, Split(reverseLabels(q)), 1,
             [found |-> FALSE, val |-> EmptyStr, len |-> 0])

\* MatchCanon looking up the wildcards before the exact set
MatchCanonWildFirst(m, q) ==
    IF m.matchAll
    THEN [Matched |-> TRUE, Rule |-> <<"*">>, Type |-> RWildcard]
    ELSE LET best == WildBest(m, q) IN
         IF best.found
         THEN [Matched |-> TRUE, Rule |-> <<"*", ".">> \o best.val, Type |-> RWildcard]
         ELSE IF q \in m.exact
         THEN [Matched |-> TRUE, Rule |-> q, Type |-> RExact]
         ELSE NoMatch

\* MatchCanon looking up the exact set before the catch-all flag
MatchCanonExactFirst(m, q) ==
    IF q \in m.exact
    THEN [Matched |-> TRUE, Rule |-> q, Type |-> RExact]
    ELSE IF m.matchAll
    THEN [Matched |-> TRUE, Rule |-> <<"*">>, Type |-> RWildcard]
    ELSE LET best == WildBest(m, q) IN
         IF best.found
         THEN [Matched |-> TRUE, Rule |-> <<"*", ".">> \o best.val, Type |-> RWildcard]
         ELSE NoMatch

\* Matcher.Match after normalisation, for a non-empty q
MatchCanon(m, q) ==
    IF m.matchAll
    THEN [Matched |-> TRUE, Rule |-> <<"*">>, Type |-> RWildcard]
    ELSE IF q \in m.exact
    THEN [Matched |-> TRUE, Rule |-> q, Type |-> RExact]
    ELSE LET best == WildBest(m, q) IN
         IF best.found
         THEN [Matched |-> TRUE, Rule |-> <<"*", ".">> \o best.val, Type |-> RWildcard]
         ELSE NoMatch

\* Match without the empty-name return
MatchNoEmptyGuard(m, qry) == MatchCanon(m, normalizeDomain(qry))

\* Matcher.Match
Match(m, qry) ==
    LET q == normalizeDomain(qry) IN
    IF q = EmptyStr THEN NoMatch ELSE MatchCanon(m, q)

(***************************************************************************)
(* The query pipeline: shared state                                        *)
(***************************************************************************)
\* most query workers spawned in one behaviour
MaxWorkers == 1
\* most fetchPolicies calls in one behaviour
MaxFetches == 1
\* fetchPolicies calls in a behaviour of consecutive policy rounds
MaxRounds == 2
\* query workers running side by side in a behaviour without policy updates
MaxPeers == 2
\* fetchPolicies calls in a behaviour of DoH and TLS updates without queries
MaxTicks == 3
\* fetchPolicies calls in a behaviour that fills the update channel
MaxBurst == 11

\* capacity of the update channel
ChanCap == 10
\* the length of a DNS header; shorter queries are not counted as parse errors
HeaderLen == 12
\* nanoseconds in time.Second
Second == 1000000000
\* default of the fetch-interval flag, in seconds
DefaultIntervalSec == 30

\* size of the buffers UDP messages are read into
UDPBufLen == 512

\* the handler goroutines of one behaviour
Workers == DOMAIN workers

OperationalModes == {"strict", "balance", "other"}

\* block lists a controller policy may carry
BlockLists == { <<>>, << <<"a">> >>, << <<"*", ".", "a">> >> }

\* policy intervals (seconds) a controller policy may carry
Intervals == {5}

\* base64 fields of a TLSData: "" is empty, "g" decodes to "d", "j" decodes to
\* "x" (bytes that are no PEM), "!" does not decode
\* present is false when the response has no tlsData
NoTLS == [present |-> FALSE, cert |-> "", key |-> "", ca |-> ""]

TLSOffers ==
    { NoTLS,
      [present |-> TRUE, cert |-> "g", key |-> "g", ca |-> "g"],
      [present |-> TRUE, cert |-> "g", key |-> "!", ca |-> "g"] }

\* tlsData whose key pair decodes and whose CA certificate does not
BadCAOffer == [present |-> TRUE, cert |-> "g", key |-> "g", ca |-> "!"]

\* tlsData whose key pair decodes to bytes that are no certificate and key
JunkKeyOffer == [present |-> TRUE, cert |-> "j", key |-> "j", ca |-> "g"]

\* the ControllerResponse values a successful fetch may decode
Responses ==
    [blockList : BlockLists, dryrun : BOOLEAN, doh : BOOLEAN,
     interval : Intervals, tls : TLSOffers]

NoResponse ==
    [blockList |-> <<>>, dryrun |-> FALSE, doh |-> FALSE, interval |-> 0, tls |-> NoTLS]

\* the responses of a controller that serves no TLS material
PlainResponses == {r \in Responses : ~r.tls.present}

\* the responses of a controller whose policy is empty or blocks the name a,
\* and that turns DoH on with one policy, which comes with TLS material
RoundResponses ==
    {r \in Responses :
        /\ r.blockList \in {<<>>, << <<"a">> >>}
        /\ r.doh = r.tls.present
        /\ r.doh => (r.tls.key = "g" /\ ~r.dryrun /\ r.blockList = <<>>)}

\* the record of a fetchPolicies call: how it ended, the doh flag, tlsData
\* presence, interval and dryrun of the response it decoded, and the calls it
\* made so far
NoFetch ==
    [outcome |-> "none", doh |-> FALSE, hasTLS |-> FALSE, interval |-> 0,
     dryrun |-> FALSE, events |-> <<>>]

\* a time.Duration (int64 nanoseconds) of sec * Second + nsec nanoseconds
\* time.Duration(n) * time.Second
DurationSeconds(n) == [sec |-> n, nsec |-> 0]

\* time.Duration(n)
DurationNanos(n) == [sec |-> n \div Second, nsec |-> n % Second]

\* a nil *doh.DoHClient
NilClient ==
    [set |-> FALSE, cert |-> "", key |-> "", ca |-> "", paths |-> FALSE,
     loaded |-> FALSE]

EmptyTLS == [cert |-> "", key |-> "", ca |-> ""]

\* a client query as it arrives: its length in bytes and the name its question
\* section carries (empty when there is none or it is malformed)
WireLen(name) == HeaderLen + Len(name) + 2 + 4

ClientQueries ==
    { [len |-> HeaderLen - 1, qname |-> EmptyStr],
      [len |-> HeaderLen + 1, qname |-> EmptyStr],
      [len |-> WireLen(<<"a">>), qname |-> <<"a">>],
      [len |-> WireLen(<<"b", ".", "a">>), qname |-> <<"b", ".", "a">>] }

NoQuery == [len |-> 0, qname |-> EmptyStr]

\* a query for "a" whose additional section makes it longer than 512 bytes
LongQuery == [len |-> 600, qname |-> <<"a">>]

\* sizes in bytes of the datagrams a plain-DNS upstream answers with over UDP
UpstreamUDPLens == {45, 600}

\* values of the length prefix a plain-DNS upstream answers with over TCP
UpstreamTCPLens == {45, 65535}

\* sizes in bytes of the bodies a DoH upstream answers with (io.ReadAll puts
\* no limit on them)
DoHLens == {45, 600, 65581}

\* an upstream that answers every query with 45 bytes, whole
SmallUpstream == [udp |-> {45}, tcp |-> {45}, doh |-> {45}, partial |-> FALSE]

\* an upstream that answers with any of the sizes above and may deliver a
\* TCP response in pieces
AnyUpstream ==
    [udp |-> UpstreamUDPLens, tcp |-> UpstreamTCPLens, doh |-> DoHLens,
     partial |-> TRUE]

\* the payload sizes one WriteToUDP call can send
UDPWritable == 0..65507

\* the two bytes byte(n >> 8), byte(n & 0xFF) written before a TCP payload of
\* n bytes
LengthPrefix(n) == [hi |-> (n \div 256) % 256, lo |-> n % 256]

\* int(buf[0])<<8 | int(buf[1]): the length a two-byte prefix announces
PrefixValue(p) == p.hi * 256 + p.lo


\* the environment: a full controller, MaxFetches ticks, MaxWorkers queries
FullEnv ==
    [responses |-> Responses, fetches |-> MaxFetches, queries |-> MaxWorkers,
     asks |-> ClientQueries, upstream |-> SmallUpstream, files |-> {TRUE}]

\* the environment of consecutive policy rounds: every client asks for a
RoundsEnv ==
    [responses |-> RoundResponses, fetches |-> MaxRounds, queries |-> MaxWorkers,
     asks |-> {q \in ClientQueries : q.qname = <<"a">>}, upstream |-> SmallUpstream,
     files |-> {TRUE}]

\* the environment of queries served side by side once the fetcher's ticks
\* are used up
PeersEnv ==
    [responses |-> PlainResponses, fetches |-> 1, queries |-> MaxPeers,
     asks |-> ClientQueries \cup {LongQuery}, upstream |-> AnyUpstream,
     files |-> {TRUE}]

\* the environment of DoH and TLS updates: the controller serves an empty
\* block list with any doh flag and TLS material, and no query arrives
UpdatesEnv ==
    [responses |-> [blockList : {<<>>}, dryrun : {FALSE}, doh : BOOLEAN,
                    interval : Intervals,
                    tls : TLSOffers \cup {BadCAOffer, JunkKeyOffer}],
     fetches |-> MaxTicks, queries |-> 0, asks |-> {}, upstream |-> SmallUpstream,
     files |-> BOOLEAN]

\* the environment of a burst of policy rounds: the controller serves one
\* plain policy again and again, and no query arrives
BurstEnv ==
    [responses |-> {r \in PlainResponses :
                        r.blockList = << <<"a">> >> /\ ~r.dryrun /\ ~r.doh},
     fetches |-> MaxBurst, queries |-> 0, asks |-> {}, upstream |-> SmallUpstream,
     files |-> {TRUE}]

\* ParseQuery, first result: the name of the first question, empty on
\* malformed input (a message shorter than the header has no question)
ParseQuery(q) == IF q.len < HeaderLen THEN EmptyStr ELSE q.qname

\* CreateNXDomainResponse: the length of the response built for query q, the
\* header followed by the question section
CreateNXDomainResponse(q) == WireLen(ParseQuery(q))

\* x509 and tls parsing of decoded data: "d" is PEM that parses, "x" is not
Parses(data) == data = "d"

\* doh.loadTLSConfig, its error result: the CA certificate comes from memory
\* when there is data and from the CA path otherwise, the key pair from memory
\* when there is data and from the two paths when they were given; filesOk
\* says whether the files the paths name can be read and parsed
loadTLSConfig(config, filesOk) ==
    \/ config.ca # "" /\ ~Parses(config.ca)
    \/ config.ca = "" /\ ~filesOk
    \/ config.cert # "" /\ ~(Parses(config.cert) /\ Parses(config.key))
    \/ config.cert = "" /\ config.paths /\ ~filesOk

\* NewDoHClient that gives up when the TLS material does not load
NewDoHClientNilOnError(config, filesOk) ==
    IF loadTLSConfig(config, filesOk) THEN NilClient
    ELSE [set |-> TRUE, cert |-> config.cert, key |-> config.key,
          ca |-> config.ca, paths |-> config.paths, loaded |-> TRUE]

\* doh.NewDoHClient: a client on the loaded TLS configuration, or on the
\* default one (no CA pool, no client certificate) when loading fails
NewDoHClient(config, filesOk) ==
    IF loadTLSConfig(config, filesOk)
    THEN [set |-> TRUE, cert |-> "", key |-> "", ca |-> "",
          paths |-> config.paths, loaded |-> FALSE]
    ELSE [set |-> TRUE, cert |-> config.cert, key |-> config.key,
          ca |-> config.ca, paths |-> config.paths, loaded |-> TRUE]

\* Handler.initDoHClient: the DoHConfig carries the in-memory key pair when
\* both parts are present, the CA data when present, and the key pair paths
\* it was given; the client is what NewDoHClient returns for it
initDoHClient(tls, withPaths, filesOk) ==
    NewDoHClient([cert |-> IF tls.cert # "" /\ tls.key # "" THEN tls.cert ELSE "",
                  key |-> IF tls.cert # "" /\ tls.key # "" THEN tls.key ELSE "",
                  ca |-> tls.ca,
                  paths |-> withPaths], filesOk)

\* born, tick and snap are history: what the latest fetch was when the query
\* arrived ("running" while one is in progress), how many fetches had started
\* by then, and how many matchers had been published when the worker read
\* the holder
FreeWorker ==
    [proto |-> "none", pc |-> "free", q |-> NoQuery, domain |-> EmptyStr,
     m |-> EmptyMatcher, decided |-> FALSE, matched |-> FALSE, rule |-> EmptyStr,
     dry |-> FALSE, nx |-> FALSE, up |-> FALSE, resp |-> 0,
     conn |-> "none", upconn |-> "none", exit |-> "none",
     born |-> "none", tick |-> 0, snap |-> 0,
     route |-> "none", seen |-> NilClient, used |-> "none",
     n |-> 0, ulen |-> -1, pfx |-> -1, out |-> -1,
     arrived |-> NoQuery, fwd |-> NoQuery]

\* the state after main has built the bootstrap matcher and the handler and
\* started the goroutines, with operational mode mode and -https-mode flag https
PBoot(mode, https) ==
    /\ opMode = mode
    /\ hMatcher = BuildMatcher(<<>>)
    /\ hDryRun = FALSE
    /\ mu = Unlocked
    /\ hHTTPSMode = https
    /\ \E filesOk \in env.files :
        hDoHClient = IF https THEN initDoHClient(EmptyTLS, TRUE, filesOk)
                     ELSE NilClient
    /\ cfgDryRun = FALSE
    /\ cfgHTTPSMode = https
    /\ cfgTLS = EmptyTLS
    /\ cfgFetchInterval = DurationSeconds(DefaultIntervalSec)
    /\ ticker = DurationSeconds(DefaultIntervalSec)
    /\ updateChannel = <<>>
    /\ fpc = "idle"
    /\ fresp = NoResponse
    /\ fetches = 0
    /\ cpc = "recv"
    /\ cList = <<>>
    /\ workers = [w \in 1..env.queries |-> FreeWorker]
    /\ udpBuffer = NoQuery
    /\ flog = NoFetch
    /\ sent = <<>>
    /\ published = <<>>

Init ==
    /\ rules = <<>>
    /\ query = EmptyStr
    /\ matcher = EmptyMatcher
    /\ result = NoMatch
    /\ mpc = "off"
    /\ env = FullEnv
    /\ \E mode \in OperationalModes, https \in BOOLEAN : PBoot(mode, https)

(***************************************************************************)
(* Fetcher.fetchPolicies (one call per tick)                               *)
(***************************************************************************)
FailKinds == {"transport", "status", "decode"}

\* FetchFail with a switch that treats every mode but strict as balance
FetchFailDefaultBalance ==
    /\ fpc = "idle"
    /\ fetches < env.fetches
    /\ \E kind \in FailKinds :
        /\ fetches' = fetches + 1
        /\ fresp' = NoResponse
        /\ flog' = [NoFetch EXCEPT !.outcome = "failed"]
        /\ CASE opMode = "strict" ->
                    /\ fpc' = "failsend"
                    /\ UNCHANGED cfgDryRun
             [] OTHER ->
                    /\ cfgDryRun' = TRUE
                    /\ fpc' = "idle"
    /\ UNCHANGED <<mvars, bootvars, mu, hvars, cfgHTTPSMode, cfgTLS, cfgFetchInterval,
                   updateChannel, cvars, workers, udpBuffer, sent, published>>

\* a fetch that fails with a transport error, a non-200 status or a decode
\* error: the switch on the operational mode
FetchFail ==
    /\ fpc = "idle"
    /\ fetches < env.fetches
    /\ \E kind \in FailKinds :
        /\ fetches' = fetches + 1
        /\ fresp' = NoResponse
        /\ flog' = [NoFetch EXCEPT !.outcome = "failed"]
        /\ CASE opMode = "strict" ->
                    /\ fpc' = "failsend"
                    /\ UNCHANGED cfgDryRun
             [] opMode = "balance" ->
                    /\ cfgDryRun' = TRUE
                    /\ fpc' = "idle"
             [] OTHER ->
                    /\ fpc' = "idle"
                    /\ UNCHANGED cfgDryRun
    /\ UNCHANGED <<mvars, bootvars, mu, hvars, cfgHTTPSMode, cfgTLS, cfgFetchInterval,
                   updateChannel, cvars, workers, udpBuffer, sent, published>>

\* f.updateChannel <- []string{"*"}; the send blocks while the channel is full
FailSend ==
    /\ fpc = "failsend"
    /\ Len(updateChannel) < ChanCap
    /\ updateChannel' = Append(updateChannel, << <<"*">> >>)
    /\ fpc' = "idle"
    /\ flog' = [flog EXCEPT !.events = Append(@, "send")]
    /\ sent' = Append(sent, [list |-> << <<"*">> >>, from |-> "failure"])
    /\ UNCHANGED <<mvars, bootvars, mu, hvars, cfgvars, fresp, fetches, cvars, workers,
                   udpBuffer, published>>

\* a fetch that decodes a ControllerResponse
FetchOk ==
    /\ fpc = "idle"
    /\ fetches < env.fetches
    /\ \E r \in env.responses :
        /\ fresp' = r
        /\ fpc' = "doh"
        /\ flog' = [NoFetch EXCEPT !.outcome = "ok", !.doh = r.doh,
                                   !.hasTLS = r.tls.present,
                                   !.interval = r.interval,
                                   !.dryrun = r.dryrun]
    /\ fetches' = fetches + 1
    /\ UNCHANGED <<mvars, bootvars, mu, hvars, cfgvars, updateChannel, cvars, workers,
                   udpBuffer, sent, published>>

\* SetHTTPSMode that releases the client when the mode is turned off
SetHTTPSModeDropsClient(enabled) ==
    /\ hHTTPSMode' = enabled
    /\ \E filesOk \in env.files :
        hDoHClient' = IF ~enabled THEN NilClient
                      ELSE IF hDoHClient = NilClient
                      THEN initDoHClient(cfgTLS, FALSE, filesOk)
                      ELSE hDoHClient

\* the body of Handler.SetHTTPSMode, under the write lock
SetHTTPSMode(enabled) ==
    /\ hHTTPSMode' = enabled
    /\ \E filesOk \in env.files :
        hDoHClient' = IF enabled /\ hDoHClient = NilClient
                      THEN initDoHClient(cfgTLS, FALSE, filesOk)
                      ELSE hDoHClient

\* history: the DoH callback was called with enabled
DohEvent(enabled) == IF enabled THEN "doh(true)" ELSE "doh(false)"

\* DohCallback that is invoked only when the policy enables DoH
DohCallbackWhenEnabled ==
    /\ fpc = "doh"
    /\ IF fresp.doh
       THEN /\ cfgHTTPSMode' = TRUE
            /\ Lock("fetcher")
            /\ fpc' = "dohlocked"
            /\ flog' = [flog EXCEPT !.events = Append(@, DohEvent(TRUE))]
       ELSE /\ fpc' = "tls"
            /\ UNCHANGED <<cfgHTTPSMode, mu, flog>>
    /\ UNCHANGED <<mvars, bootvars, hvars, cfgDryRun, cfgTLS,
                   cfgFetchInterval, updateChannel, fresp, fetches, cvars, workers,
                   udpBuffer, sent, published>>

\* dohCallback(resp.Policy.Spec.Doh): Config.SetHTTPSMode, then
\* Handler.SetHTTPSMode up to the return of h.mu.Lock()
DohCallback ==
    /\ fpc = "doh"
    /\ cfgHTTPSMode' = fresp.doh
    /\ Lock("fetcher")
    /\ fpc' = "dohlocked"
    /\ flog' = [flog EXCEPT !.events = Append(@, DohEvent(fresp.doh))]
    /\ UNCHANGED <<mvars, bootvars, hvars, cfgDryRun, cfgTLS,
                   cfgFetchInterval, updateChannel, fresp, fetches, cvars, workers,
                   udpBuffer, sent, published>>

\* Handler.SetHTTPSMode with the lock held: the writes and the deferred Unlock
DohCallbackLocked ==
    /\ fpc = "dohlocked"
    /\ SetHTTPSMode(fresp.doh)
    /\ Unlock
    /\ fpc' = "tls"
    /\ UNCHANGED <<mvars, bootvars, hMatcher, hDryRun, cfgvars, updateChannel,
                   fresp, fetches, cvars, workers, udpBuffer, gvars>>

\* base64.StdEncoding.DecodeString
B64Ok(b) == b \in {"g", "j"}

B64Decode(b) == IF b = "g" THEN "d" ELSE IF b = "j" THEN "x" ELSE ""

\* Config.UpdateTLSData: the fields are decoded and stored one after the
\* other, returning at the first that does not decode
UpdateTLSData(tls, offer) ==
    LET certBad == offer.cert # "" /\ ~B64Ok(offer.cert)
        keyBad == offer.key # "" /\ ~B64Ok(offer.key)
        caBad == offer.ca # "" /\ ~B64Ok(offer.ca)
        t1 == IF offer.cert # "" /\ ~certBad
              THEN [tls EXCEPT !.cert = B64Decode(offer.cert)] ELSE tls
        t2 == IF offer.key # "" /\ ~keyBad
              THEN [t1 EXCEPT !.key = B64Decode(offer.key)] ELSE t1
        t3 == IF offer.ca # "" /\ ~caBad
              THEN [t2 EXCEPT !.ca = B64Decode(offer.ca)] ELSE t2
    IN  IF certBad THEN [tls |-> tls, err |-> TRUE]
        ELSE IF keyBad THEN [tls |-> t1, err |-> TRUE]
        ELSE IF caBad THEN [tls |-> t2, err |-> TRUE]
        ELSE [tls |-> t3, err |-> FALSE]

\* TlsCallback that is invoked whenever the response carries tlsData
TlsCallbackAnyDoh ==
    /\ fpc = "tls"
    /\ IF fresp.tls.present
       THEN LET u == UpdateTLSData(cfgTLS, fresp.tls) IN
            /\ cfgTLS' = u.tls
            /\ flog' = [flog EXCEPT !.events = Append(@, "tls")]
            /\ IF ~u.err /\ cfgHTTPSMode
               THEN Lock("fetcher") /\ fpc' = "tlslocked"
               ELSE UNCHANGED mu /\ fpc' = "send"
       ELSE UNCHANGED <<cfgTLS, flog, mu>> /\ fpc' = "send"
    /\ UNCHANGED <<mvars, bootvars, hvars, cfgDryRun,
                   cfgHTTPSMode, cfgFetchInterval, updateChannel, fresp, fetches,
                   cvars, workers, udpBuffer, sent, published>>

\* the TLS step of fetchPolicies: when the policy has doh and the response
\* carries tlsData, tlsCallback runs Config.UpdateTLSData and, when that
\* succeeds and the config has DoH enabled, enters Handler.UpdateTLSConfig up
\* to the return of h.mu.Lock(); nothing otherwise
TlsCallback ==
    /\ fpc = "tls"
    /\ IF fresp.doh /\ fresp.tls.present
       THEN LET u == UpdateTLSData(cfgTLS, fresp.tls) IN
            /\ cfgTLS' = u.tls
            /\ flog' = [flog EXCEPT !.events = Append(@, "tls")]
            /\ IF ~u.err /\ cfgHTTPSMode
               THEN Lock("fetcher") /\ fpc' = "tlslocked"
               ELSE UNCHANGED mu /\ fpc' = "send"
       ELSE UNCHANGED <<cfgTLS, flog, mu>> /\ fpc' = "send"
    /\ UNCHANGED <<mvars, bootvars, hvars, cfgDryRun,
                   cfgHTTPSMode, cfgFetchInterval, updateChannel, fresp, fetches,
                   cvars, workers, udpBuffer, sent, published>>

\* Handler.UpdateTLSConfig with the lock held: the client is rebuilt when the
\* handler has DoH enabled, then the deferred Unlock
TlsCallbackLocked ==
    /\ fpc = "tlslocked"
    /\ \E filesOk \in env.files :
        hDoHClient' = IF hHTTPSMode THEN initDoHClient(cfgTLS, FALSE, filesOk)
                      ELSE hDoHClient
    /\ Unlock
    /\ fpc' = "send"
    /\ UNCHANGED <<mvars, bootvars, hMatcher, hDryRun, hHTTPSMode, cfgvars,
                   updateChannel, fresp, fetches, cvars, workers, udpBuffer, gvars>>

\* SendList on a channel that takes a list whatever it holds
SendListNoWait ==
    /\ fpc = "send"
    /\ updateChannel' = Append(updateChannel, fresp.blockList)
    /\ fpc' = "finish"
    /\ flog' = [flog EXCEPT !.events = Append(@, "send")]
    /\ sent' = Append(sent, [list |-> fresp.blockList, from |-> "policy"])
    /\ UNCHANGED <<mvars, bootvars, mu, hvars, cfgvars, fresp, fetches, cvars, workers,
                   udpBuffer, published>>

\* f.updateChannel <- resp.Policy.Spec.BlockList; blocks while the channel is full
SendList ==
    /\ fpc = "send"
    /\ Len(updateChannel) < ChanCap
    /\ updateChannel' = Append(updateChannel, fresp.blockList)
    /\ fpc' = "finish"
    /\ flog' = [flog EXCEPT !.events = Append(@, "send")]
    /\ sent' = Append(sent, [list |-> fresp.blockList, from |-> "policy"])
    /\ UNCHANGED <<mvars, bootvars, mu, hvars, cfgvars, fresp, fetches, cvars, workers,
                   udpBuffer, published>>

\* *f.dryRun = DryRun; *f.fetchInterval = time.Duration(Interval); return
Finish ==
    /\ fpc = "finish"
    /\ cfgDryRun' = fresp.dryrun
    /\ cfgFetchInterval' = DurationNanos(fresp.interval)
    /\ fresp' = NoResponse
    /\ fpc' = "idle"
    /\ UNCHANGED <<mvars, bootvars, mu, hvars, cfgHTTPSMode, cfgTLS, updateChannel,
                   fetches, cvars, workers, udpBuffer, gvars>>

(***************************************************************************)
(* The update consumer goroutine of main                                   *)
(***************************************************************************)
\* a consumer that takes one list from the channel and then stops receiving
ConsumerRecvOnce ==
    /\ cpc = "recv"
    /\ published = <<>>
    /\ Len(updateChannel) > 0
    /\ cList' = Head(updateChannel)
    /\ updateChannel' = Tail(updateChannel)
    /\ cpc' = "setdry"
    /\ UNCHANGED <<mvars, bootvars, mu, hvars, cfgvars, fvars, workers, udpBuffer, gvars>>

\* newBlocklist := <-updateChannel; newMatcher := BuildMatcher(newBlocklist)
ConsumerRecv ==
    /\ cpc = "recv"
    /\ Len(updateChannel) > 0
    /\ cList' = Head(updateChannel)
    /\ updateChannel' = Tail(updateChannel)
    /\ cpc' = "setdry"
    /\ UNCHANGED <<mvars, bootvars, mu, hvars, cfgvars, fvars, workers, udpBuffer, gvars>>

\* dnsHandler.DryRun = cfg.DryRun
ConsumerSetDryRun ==
    /\ cpc = "setdry"
    /\ hDryRun' = cfgDryRun
    /\ cpc' = "publish"
    /\ UNCHANGED <<mvars, bootvars, mu, hMatcher, hHTTPSMode, hDoHClient, cfgvars,
                   updateChannel, fvars, cList, workers, udpBuffer, gvars>>

\* dnsHandler.UpdateMatcher(newMatcher) up to the return of h.mu.Lock()
ConsumerLock ==
    /\ cpc = "publish"
    /\ Lock("consumer")
    /\ cpc' = "locked"
    /\ UNCHANGED <<mvars, bootvars, hvars, cfgvars, updateChannel, fvars, cList,
                   workers, udpBuffer, gvars>>

\* UpdateMatcher that leaves a catch-all matcher in place
ConsumerPublishKeepsCatchAll ==
    /\ cpc = "locked"
    /\ Unlock
    /\ hMatcher' = IF hMatcher.matchAll THEN hMatcher ELSE BuildMatcher(cList)
    /\ published' = Append(published, hMatcher')
    /\ cList' = <<>>
    /\ cpc' = "recv"
    /\ UNCHANGED <<mvars, bootvars, hDryRun, hHTTPSMode, hDoHClient, cfgvars,
                   updateChannel, fvars, workers, udpBuffer, flog, sent>>

\* ConsumerPublish that adds the new rules to the active matcher
ConsumerPublishMerged ==
    /\ cpc = "locked"
    /\ Unlock
    /\ LET new == BuildMatcher(cList)
           merged == [exact |-> hMatcher.exact \cup new.exact,
                      wild |-> hMatcher.wild \cup new.wild,
                      matchAll |-> hMatcher.matchAll \/ new.matchAll]
       IN  /\ hMatcher' = merged
           /\ published' = Append(published, merged)
    /\ cList' = <<>>
    /\ cpc' = "recv"
    /\ UNCHANGED <<mvars, bootvars, hDryRun, hHTTPSMode, hDoHClient, cfgvars,
                   updateChannel, fvars, workers, udpBuffer, flog, sent>>

\* dnsHandler.UpdateMatcher(newMatcher) with the lock held: the pointer
\* store and the deferred Unlock
ConsumerPublish ==
    /\ cpc = "locked"
    /\ Unlock
    /\ hMatcher' = BuildMatcher(cList)
    /\ published' = Append(published, hMatcher')
    /\ cList' = <<>>
    /\ cpc' = "recv"
    /\ UNCHANGED <<mvars, bootvars, hDryRun, hHTTPSMode, hDoHClient, cfgvars,
                   updateChannel, fvars, workers, udpBuffer, flog, sent>>

(***************************************************************************)
(* Query workers: Handler.HandleUDP and Handler.HandleTCP                  *)
(***************************************************************************)
\* the worker record after a return: the deferred Close calls have run
\* Return that leaves the upstream connection as it is
ReturnLeaksUpstream(r, reason) ==
    [r EXCEPT !.pc = "done", !.exit = reason,
              !.conn = IF @ = "open" THEN "closed" ELSE @]

\* the return of a handler: the deferred Close calls run
Return(r, reason) ==
    [r EXCEPT !.pc = "done", !.exit = reason,
              !.conn = IF @ = "open" THEN "closed" ELSE @,
              !.upconn = IF @ = "open" THEN "closed" ELSE @]

\* what no worker step changes
SharedFrame ==
    UNCHANGED <<mvars, bootvars, hvars, cfgvars, updateChannel, fvars, cvars, gvars>>

\* what the steps of a running worker leave alone
WorkerFrame == SharedFrame /\ UNCHANGED <<mu, udpBuffer>>

\* what the steps of a running worker that take or release the lock leave alone
LockFrame == SharedFrame /\ UNCHANGED udpBuffer

\* the server accepts a query for slot w: the queries of the environment are
\* not used up and the slots are taken in order
Arrives(w) ==
    /\ workers[w].pc = "free"
    /\ \A v \in Workers : v < w => workers[v].pc # "free"

\* history: the latest fetch as seen when a query arrives
Born == IF fpc = "idle" THEN flog.outcome ELSE "running"

\* conn.ReadFromUDP(buffer): the bytes of datagram d that the buffer takes
ReadFromUDP(d) == [d EXCEPT !.len = IF @ > UDPBufLen THEN UDPBufLen ELSE @]

\* UDPServer.Start that hands the buffer itself to the workers: the running
\* UDP workers see what the listener reads next
SpawnUDPAliased(w) ==
    /\ Arrives(w)
    /\ \E d \in env.asks :
        /\ udpBuffer' = ReadFromUDP(d)
        /\ workers' = [v \in Workers |->
                        IF v = w
                        THEN [FreeWorker EXCEPT !.proto = "udp", !.pc = "parse",
                                                !.q = udpBuffer', !.arrived = d,
                                                !.born = Born, !.tick = fetches]
                        ELSE IF workers[v].proto = "udp" /\ workers[v].pc # "done"
                        THEN [workers[v] EXCEPT !.q = udpBuffer']
                        ELSE workers[v]]
    /\ SharedFrame
    /\ UNCHANGED mu

\* UDPServer.Start: a datagram is read into the buffer, the bytes read are
\* copied and the copy is handed to go HandleUDP
SpawnUDP(w) ==
    /\ Arrives(w)
    /\ \E d \in env.asks :
        /\ udpBuffer' = ReadFromUDP(d)
        /\ workers' = [workers EXCEPT ![w] =
                        [FreeWorker EXCEPT !.proto = "udp", !.pc = "parse",
                                           !.q = udpBuffer', !.arrived = d,
                                           !.born = Born, !.tick = fetches]]
    /\ SharedFrame
    /\ UNCHANGED mu

\* TCPServer.Start: a connection is accepted and handed to go HandleTCP;
\* q is the message the client sends on it
SpawnTCP(w) ==
    /\ Arrives(w)
    /\ \E q \in env.asks :
        workers' = [workers EXCEPT ![w] =
                        [FreeWorker EXCEPT !.proto = "tcp", !.pc = "readlen", !.q = q,
                                           !.conn = "open", !.born = Born, !.tick = fetches]]
    /\ WorkerFrame

\* HandleTCP: clientConn.Read(lengthBuf)
TCPReadLen(w) ==
    /\ workers[w].pc = "readlen"
    /\ \E ok \in BOOLEAN :
        workers' = [workers EXCEPT ![w] =
                        IF ok THEN [@ EXCEPT !.pc = "readquery"]
                        ELSE Return(@, "parse")]
    /\ WorkerFrame

\* HandleTCP: clientConn.Read(query) and the n != queryLen test; a 2-byte
\* prefix cannot exceed 65535. The client has sent the whole message: "short"
\* is a Read that returns the first piece of it
TCPReadQuery(w) ==
    /\ workers[w].pc = "readquery"
    /\ \E outcome \in {"ok", "err", "short"} :
        workers' = [workers EXCEPT ![w] =
                        IF outcome = "ok" THEN [@ EXCEPT !.pc = "parse"]
                        ELSE IF outcome = "short" THEN Return(@, "short")
                        ELSE Return(@, "parse")]
    /\ WorkerFrame

\* ParseQuery and the parse-error return
Parse(w) ==
    /\ workers[w].pc = "parse"
    /\ LET domain == ParseQuery(workers[w].q) IN
        workers' = [workers EXCEPT ![w] =
                        IF domain = EmptyStr /\ @.q.len >= HeaderLen
                        THEN Return(@, "parse")
                        ELSE [@ EXCEPT !.pc = "getmatcher", !.domain = domain]]
    /\ WorkerFrame

\* h.getMatcher() up to the return of h.mu.RLock()
GetMatcherLock(w) ==
    /\ workers[w].pc = "getmatcher"
    /\ workers' = [workers EXCEPT ![w] = [@ EXCEPT !.pc = "getmatcherlocked"]]
    /\ RLock(w)
    /\ LockFrame

\* GetMatcher that returns the consumer's new matcher before UpdateMatcher
\* has been called with it
GetMatcherUnpublished(w) ==
    /\ workers[w].pc = "getmatcherlocked"
    /\ workers' = [workers EXCEPT ![w] =
                        [@ EXCEPT !.pc = "decide",
                                  !.m = IF cpc = "recv" THEN hMatcher
                                        ELSE BuildMatcher(cList),
                                  !.snap = Len(published)]]
    /\ RUnlock(w)
    /\ LockFrame

\* m := h.getMatcher() with the read lock held: the read of h.Matcher and the
\* deferred RUnlock
GetMatcher(w) ==
    /\ workers[w].pc = "getmatcherlocked"
    /\ workers' = [workers EXCEPT ![w] = [@ EXCEPT !.pc = "decide", !.m = hMatcher,
                                                   !.snap = Len(published)]]
    /\ RUnlock(w)
    /\ LockFrame

\* Decided with a second read of the holder at match time
DecidedReread(w) ==
    LET r == Match(hMatcher, workers[w].domain) IN
    [workers[w] EXCEPT !.decided = TRUE, !.matched = r.Matched, !.rule = r.Rule,
                       !.dry = hDryRun]

\* the worker record once Match has run on the captured matcher; dry records
\* the value of h.DryRun at that moment
Decided(w) ==
    LET r == Match(workers[w].m, workers[w].domain) IN
    [workers[w] EXCEPT !.decided = TRUE, !.matched = r.Matched, !.rule = r.Rule,
                       !.dry = hDryRun]

\* a response write to the client: counted when it succeeds
Wrote(r, ok) == [r EXCEPT !.resp = IF ok THEN @ + 1 ELSE @]

\* a write of a response of len bytes to the client: out records the size of
\* the payload when the write succeeds
Sent(r, ok, len) == [Wrote(r, ok) EXCEPT !.out = IF ok THEN len ELSE @]

\* UDPDecide without the return after the NXDOMAIN write
UDPDecideNoReturn(w) ==
    /\ workers[w].pc = "decide"
    /\ workers[w].proto = "udp"
    /\ LET d == Decided(w) IN
       \E ok \in BOOLEAN :
        workers' = [workers EXCEPT ![w] =
                        IF d.matched /\ ~hDryRun
                        THEN [Wrote([d EXCEPT !.nx = TRUE], ok) EXCEPT !.pc = "mode"]
                        ELSE [d EXCEPT !.pc = "mode"]]
    /\ WorkerFrame

\* HandleUDP: m.Match(domain), the read of h.DryRun, and the NXDOMAIN write
UDPDecide(w) ==
    /\ workers[w].pc = "decide"
    /\ workers[w].proto = "udp"
    /\ LET d == Decided(w) IN
       \E ok \in BOOLEAN :
        workers' = [workers EXCEPT ![w] =
                        IF d.matched /\ ~hDryRun
                        THEN Return(Sent([d EXCEPT !.nx = TRUE], ok,
                                         CreateNXDomainResponse(d.q)), "blocked")
                        ELSE [d EXCEPT !.pc = "mode"]]
    /\ WorkerFrame

\* HandleTCP: m.Match(domain) and the write of the NXDOMAIN length prefix;
\* h.DryRun is not read on this path
TCPDecide(w) ==
    /\ workers[w].pc = "decide"
    /\ workers[w].proto = "tcp"
    /\ LET d == Decided(w) IN
       \E ok \in BOOLEAN :
        workers' = [workers EXCEPT ![w] =
                        IF d.matched
                        THEN IF ok
                             THEN [d EXCEPT !.nx = TRUE, !.pc = "nxbody",
                                            !.pfx = PrefixValue(LengthPrefix(
                                                        CreateNXDomainResponse(d.q)))]
                             ELSE Return([d EXCEPT !.nx = TRUE], "client_write")
                        ELSE [d EXCEPT !.pc = "mode"]]
    /\ WorkerFrame

\* HandleTCP: clientConn.Write(nxdomainResponse)
TCPWriteNX(w) ==
    /\ workers[w].pc = "nxbody"
    /\ \E ok \in BOOLEAN :
        workers' = [workers EXCEPT ![w] =
                        Return(Sent(@, ok, CreateNXDomainResponse(workers[w].q)),
                               "blocked")]
    /\ WorkerFrame

\* h.isHTTPSModeEnabled() up to the return of h.mu.RLock()
CheckModeLock(w) ==
    /\ workers[w].pc = "mode"
    /\ workers' = [workers EXCEPT ![w] = [@ EXCEPT !.pc = "modelocked"]]
    /\ RLock(w)
    /\ LockFrame

\* CheckMode that takes the DoH path whenever a client is allocated
CheckModeByClient(w) ==
    /\ workers[w].pc = "modelocked"
    /\ workers' = [workers EXCEPT ![w] =
                        [@ EXCEPT !.pc = IF hDoHClient.set THEN "doh" ELSE "dial",
                                  !.route = IF hDoHClient.set THEN "doh" ELSE "plain",
                                  !.seen = hDoHClient]]
    /\ RUnlock(w)
    /\ LockFrame

\* h.isHTTPSModeEnabled() with the read lock held: the read of the flag, the
\* deferred RUnlock, and the branch on the result; seen is the DoH client whose
\* construction is ordered before this worker's later reads by the lock
CheckMode(w) ==
    /\ workers[w].pc = "modelocked"
    /\ workers' = [workers EXCEPT ![w] =
                        [@ EXCEPT !.pc = IF hHTTPSMode THEN "doh" ELSE "dial",
                                  !.route = IF hHTTPSMode THEN "doh" ELSE "plain",
                                  !.seen = IF hHTTPSMode THEN hDoHClient ELSE NilClient]]
    /\ RUnlock(w)
    /\ LockFrame

\* where a worker goes once it holds the upstream response
ReplyPc(proto) == IF proto = "tcp" THEN "replylen" ELSE "reply"

\* what the reads of h.DoHClient in HandleHTTPS, made without h.mu, can
\* observe: the client the handler holds; and, when initDoHClient has assigned
\* the field since this worker released the read lock (a write no lock orders
\* with these reads), the client from before or the new pointer ahead of the
\* writes that built the object behind it
Observable(w) ==
    {[client |-> hDoHClient, how |-> "whole"]}
        \cup (IF hDoHClient # workers[w].seen
              THEN {[client |-> workers[w].seen, how |-> "whole"],
                    [client |-> hDoHClient, how |-> "partial"]}
              ELSE {})

\* h.HandleHTTPS: the nil test and DoHClient.Query, whose body io.ReadAll
\* returns whole
DoHQuery(w) ==
    /\ workers[w].pc = "doh"
    /\ \E o \in Observable(w), ok \in BOOLEAN, len \in env.upstream.doh :
        workers' = [workers EXCEPT ![w] =
                        IF o.client = NilClient
                        THEN Return([@ EXCEPT !.seen = NilClient], "upstream_read")
                        ELSE IF ok
                        THEN [@ EXCEPT !.up = TRUE, !.used = o.how,
                                       !.seen = NilClient, !.n = len,
                                       !.fwd = workers[w].q,
                                       !.pc = ReplyPc(workers[w].proto)]
                        ELSE Return([@ EXCEPT !.up = TRUE, !.used = o.how,
                                              !.seen = NilClient,
                                              !.fwd = workers[w].q], "upstream_read")]
    /\ WorkerFrame

\* net.DialUDP / net.DialTimeout to the plain-DNS upstream
Dial(w) ==
    /\ workers[w].pc = "dial"
    /\ \E ok \in BOOLEAN :
        workers' = [workers EXCEPT ![w] =
                        IF ok
                        THEN [@ EXCEPT !.up = TRUE, !.upconn = "open",
                                       !.pc = IF workers[w].proto = "tcp" THEN "upwritelen"
                                              ELSE "upwrite"]
                        ELSE Return([@ EXCEPT !.up = TRUE], "upstream_dial")]
    /\ WorkerFrame

\* one upstream or client I/O call at position from that either succeeds and
\* moves on to position to, or fails and returns with the error class
IOStep(w, from, to, class) ==
    /\ workers[w].pc = from
    /\ \E ok \in BOOLEAN :
        workers' = [workers EXCEPT ![w] =
                        IF ok THEN [@ EXCEPT !.pc = to] ELSE Return(@, class)]
    /\ WorkerFrame

\* HandleTCP: upstreamConn.Write(lengthBuf)
UpWriteLen(w) == IOStep(w, "upwritelen", "upwrite", "upstream_write")

\* upstreamConn.Write(query)
UpWrite(w) ==
    /\ workers[w].pc = "upwrite"
    /\ \E ok \in BOOLEAN :
        workers' = [workers EXCEPT ![w] =
                        IF ok
                        THEN [@ EXCEPT !.fwd = workers[w].q,
                                       !.pc = IF workers[w].proto = "tcp"
                                              THEN "upreadlen" ELSE "upread"]
                        ELSE Return(@, "upstream_write")]
    /\ WorkerFrame

\* HandleTCP: upstreamConn.Read(responseLengthBuf) and the decoding of the
\* announced length
UpReadLen(w) ==
    /\ workers[w].pc = "upreadlen"
    /\ \E ok \in BOOLEAN, len \in env.upstream.tcp :
        workers' = [workers EXCEPT ![w] =
                        IF ok
                        THEN [@ EXCEPT !.n = PrefixValue(LengthPrefix(len)),
                                       !.ulen = PrefixValue(LengthPrefix(len)),
                                       !.pc = "upread"]
                        ELSE Return(@, "upstream_read")]
    /\ WorkerFrame

\* the byte counts one Read into a buffer of len bytes can return when the
\* peer sends size bytes: everything that fits in a datagram read, and as
\* little as one byte of a stream that arrives in pieces
ReadCounts(proto, len, size) ==
    IF proto = "udp" THEN {IF size < len THEN size ELSE len}
    ELSE {len} \cup (IF env.upstream.partial THEN {1} ELSE {})

\* UpRead that answers the client when the upstream read fails
UpReadReplies(w) ==
    /\ workers[w].pc = "upread"
    /\ \E ok \in BOOLEAN :
        workers' = [workers EXCEPT ![w] =
                        IF ok THEN [@ EXCEPT !.pc = ReplyPc(workers[w].proto)]
                        ELSE Return(Wrote(@, TRUE), "upstream_read")]
    /\ WorkerFrame

\* upstreamConn.Read(buffer): into 512 bytes over UDP, into a buffer of the
\* announced length over TCP
UpRead(w) ==
    /\ workers[w].pc = "upread"
    /\ \E ok \in BOOLEAN, size \in env.upstream.udp :
        \E k \in ReadCounts(workers[w].proto,
                            IF workers[w].proto = "udp" THEN UDPBufLen
                            ELSE workers[w].n, size) :
            workers' = [workers EXCEPT ![w] =
                            IF ok
                            THEN [@ EXCEPT !.n = k, !.pc = ReplyPc(workers[w].proto)]
                            ELSE Return(@, "upstream_read")]
    /\ WorkerFrame

\* HandleTCP: clientConn.Write(lengthPrefix) of the relayed response
ReplyLen(w) ==
    /\ workers[w].pc = "replylen"
    /\ \E ok \in BOOLEAN :
        workers' = [workers EXCEPT ![w] =
                        IF ok
                        THEN [@ EXCEPT !.pfx = PrefixValue(LengthPrefix(workers[w].n)),
                                       !.pc = "reply"]
                        ELSE Return(@, "client_write")]
    /\ WorkerFrame

\* the write of the relayed response to the client and the final return; a
\* datagram larger than UDP can carry is refused by WriteToUDP
Reply(w) ==
    /\ workers[w].pc = "reply"
    /\ \E ok \in BOOLEAN :
        /\ (ok /\ workers[w].proto = "udp") => workers[w].n \in UDPWritable
        /\ workers' = [workers EXCEPT ![w] =
                        IF ok THEN Return(Sent(@, TRUE, workers[w].n), "allowed")
                        ELSE Return(@, "client_write")]
    /\ WorkerFrame

WorkerStep(w) ==
    \/ SpawnUDP(w) \/ SpawnTCP(w)
    \/ TCPReadLen(w) \/ TCPReadQuery(w)
    \/ Parse(w) \/ GetMatcherLock(w) \/ GetMatcher(w)
    \/ UDPDecide(w) \/ TCPDecide(w) \/ TCPWriteNX(w)
    \/ CheckModeLock(w) \/ CheckMode(w) \/ DoHQuery(w) \/ Dial(w)
    \/ UpWriteLen(w) \/ UpWrite(w) \/ UpReadLen(w) \/ UpRead(w)
    \/ ReplyLen(w) \/ Reply(w)

\* a step of the fetcher goroutine or of the update consumer goroutine
UpdateStep ==
    \/ FetchFail \/ FailSend \/ FetchOk
    \/ DohCallback \/ DohCallbackLocked \/ TlsCallback \/ TlsCallbackLocked
    \/ SendList \/ Finish
    \/ ConsumerRecv \/ ConsumerSetDryRun \/ ConsumerLock \/ ConsumerPublish

Next ==
    \/ UpdateStep
    \/ \E w \in Workers : WorkerStep(w)

(***************************************************************************)
(* inputs of the matcher check                                             *)
(***************************************************************************)
RECURSIVE NamesOf(_)
\* the canonical names of exactly n one-character labels
NamesOf(n) ==
    IF n = 1 THEN {<<c>> : c \in TopLabels}
    ELSE {<<c, ".">> \o s : c \in Labels, s \in NamesOf(n - 1)}

NamesUpTo(n) == UNION {NamesOf(k) : k \in 1..n}

\* canonical rule bases and canonical query names
Bases == NamesUpTo(MaxLabels)
QueryNames == NamesUpTo(MaxLabels + 1)

\* the rules a list is drawn from: exact, wildcard, catch-all, blank
RuleAtoms ==
    Bases \cup {<<"*", ".">> \o b : b \in Bases} \cup {<<"*">>, EmptyStr}

RECURSIVE ListsOf(_, _)
ListsOf(S, n) ==
    IF n = 0 THEN {<<>>}
    ELSE {<<x>> \o l : x \in S, l \in ListsOf(S, n - 1)}

RuleLists == UNION {ListsOf(RuleAtoms, n) : n \in 0..MaxRules}

\* spellings of a name as a client may send it
Spellings(n) ==
    { n, ToUpper(n), n \o <<".">>, <<" ">> \o n \o <<" ">>, n \o <<".", " ">> }

Queries ==
    QueryNames \cup UNION {Spellings(n) : n \in Bases}
        \cup {EmptyStr, <<" ">>, <<".">>, <<" ", ".", " ">>}

NoResult == [Matched |-> FALSE, Rule |-> <<"?">>, Type |-> RExact]

MInit ==
    /\ rules \in RuleLists
    /\ query \in Queries
    /\ matcher = EmptyMatcher
    /\ result = NoResult
    /\ mpc = "build"
    /\ env = FullEnv
    /\ PBoot("other", FALSE)

\* m := BuildMatcher(rules)
MBuild ==
    /\ mpc = "build"
    /\ matcher' = BuildMatcher(rules)
    /\ mpc' = "match"
    /\ UNCHANGED <<rules, query, result, pvars>>

\* result := m.Match(query)
MMatch ==
    /\ mpc = "match"
    /\ result' = Match(matcher, query)
    /\ mpc' = "done"
    /\ UNCHANGED <<rules, query, matcher, pvars>>

MNext == MBuild \/ MMatch

vars == <<mvars, pvars>>

SpecMatcher == MInit /\ [][MNext]_vars

Spec == Init /\ [][Next]_vars

\* consecutive policy rounds: the -https-mode flag is off
RInit ==
    /\ rules = <<>>
    /\ query = EmptyStr
    /\ matcher = EmptyMatcher
    /\ result = NoMatch
    /\ mpc = "off"
    /\ env = RoundsEnv
    /\ \E mode \in OperationalModes : PBoot(mode, FALSE)

SpecRounds == RInit /\ [][Next]_vars

\* the updates alone, with no query worker: the fetcher and the update consumer
UInit ==
    /\ rules = <<>>
    /\ query = EmptyStr
    /\ matcher = EmptyMatcher
    /\ result = NoMatch
    /\ mpc = "off"
    /\ \/ /\ env = UpdatesEnv
          /\ \E mode \in {"strict", "other"}, https \in BOOLEAN : PBoot(mode, https)
       \/ /\ env = BurstEnv
          /\ PBoot("other", FALSE)

UNext == UpdateStep

SpecUpdates == UInit /\ [][UNext]_vars

\* the environment of the recovery of a controller: a plain policy with one
\* rule or the same policy with DoH and TLS material, and no query
RecoveryEnv ==
    [responses |-> {r \in [blockList : {<< <<"a">> >>}, dryrun : {FALSE},
                           doh : BOOLEAN, interval : Intervals,
                           tls : {NoTLS, [present |-> TRUE, cert |-> "g",
                                          key |-> "g", ca |-> "g"]}] :
                        r.doh = r.tls.present},
     fetches |-> MaxTicks, queries |-> 0, asks |-> {}, upstream |-> SmallUpstream,
     files |-> {TRUE}]

\* the fetcher and the update consumer in strict mode, or under a burst
FInit ==
    /\ rules = <<>>
    /\ query = EmptyStr
    /\ matcher = EmptyMatcher
    /\ result = NoMatch
    /\ mpc = "off"
    /\ \/ /\ env = RecoveryEnv
          /\ PBoot("strict", FALSE)
       \/ /\ env = BurstEnv
          /\ PBoot("other", FALSE)

\* the goroutine started in main.go that ranges over updateChannel
ConsumerStep == ConsumerRecv \/ ConsumerSetDryRun \/ ConsumerLock \/ ConsumerPublish

\* the fetcher goroutine inside a callback, between Lock and Unlock
CallbackBody == DohCallbackLocked \/ TlsCallbackLocked

\* the Go scheduler runs every runnable goroutine: the update consumer goes
\* on whenever it can, and a callback that holds the lock reaches its Unlock;
\* nothing makes the controller answer or the ticker fire
SpecFair ==
    /\ FInit
    /\ [][UNext]_vars
    /\ WF_vars(ConsumerStep)
    /\ WF_vars(CallbackBody)

\* the state once the first fetch has decoded r, has returned, and the update
\* consumer has published its list (boot with the -https-mode flag off)
AfterRound(mode, r) ==
    /\ opMode = mode
    /\ hMatcher = BuildMatcher(r.blockList)
    /\ hDryRun = r.dryrun
    /\ mu = Unlocked
    /\ hHTTPSMode = r.doh
    /\ hDoHClient = IF r.doh THEN initDoHClient(EmptyTLS, FALSE, TRUE) ELSE NilClient
    /\ cfgDryRun = r.dryrun
    /\ cfgHTTPSMode = r.doh
    /\ cfgTLS = EmptyTLS
    /\ cfgFetchInterval = DurationNanos(r.interval)
    /\ ticker = DurationSeconds(DefaultIntervalSec)
    /\ updateChannel = <<>>
    /\ fpc = "idle"
    /\ fresp = NoResponse
    /\ fetches = 1
    /\ cpc = "recv"
    /\ cList = <<>>
    /\ workers = [w \in 1..env.queries |-> FreeWorker]
    /\ udpBuffer = NoQuery
    /\ flog = [outcome |-> "ok", doh |-> r.doh, hasTLS |-> FALSE,
               interval |-> r.interval, dryrun |-> r.dryrun,
               events |-> <<DohEvent(r.doh), "send">>]
    /\ sent = <<[list |-> r.blockList, from |-> "policy"]>>
    /\ published = <<BuildMatcher(r.blockList)>>

\* queries served side by side after one policy round
QInit ==
    /\ rules = <<>>
    /\ query = EmptyStr
    /\ matcher = EmptyMatcher
    /\ result = NoMatch
    /\ mpc = "off"
    /\ env = PeersEnv
    /\ \E r \in env.responses : AfterRound("other", r)

QNext == \E w \in Workers : WorkerStep(w)

SpecQueries == QInit /\ [][QNext]_vars

(***************************************************************************)
(* Properties of the matcher (checked under SpecMatcher)                  *)
(***************************************************************************)
Done == mpc = "done"

Wild(b) == <<"*", ".">> \o b

\* b is a proper label-suffix of q: q = x.b for a non-empty x
IsSubdomain(q, b) ==
    /\ Len(q) > Len(b) + 1
    /\ SubSeq(q, Len(q) - Len(b), Len(q)) = <<".">> \o b

InRules(r) == \E i \in 1..Len(rules) : rules[i] = r

WildHit(r) == [Matched |-> TRUE, Rule |-> r, Type |-> RWildcard]

ExactHit(q) == [Matched |-> TRUE, Rule |-> q, Type |-> RExact]

\* C1: with the single rule *.B, Match(B) is no match and Match(x.B) is a
\* Wildcard match on *.B
C1_WildcardApexExclusion ==
    \A b \in Bases :
        (Done /\ rules = <<Wild(b)>>) =>
            /\ (query = b => result = NoMatch)
            /\ (IsSubdomain(query, b) => result = WildHit(Wild(b)))

C1_Witness ==
    \E b \in Bases :
        /\ Done /\ rules = <<Wild(b)>>
        /\ query = b
        /\ ~result.Matched

\* the bases of the wildcard rules of the list that are valid hits for q
HitBases(q) == {b \in Bases : InRules(Wild(b)) /\ IsSubdomain(q, b)}

LongestOf(S) == CHOOSE b \in S : \A c \in S : Len(c) <= Len(b)

\* C2: when several wildcard rules are valid hits for the query, Match returns
\* the one whose base has the most labels, in whichever order the rules came
C2_LongestSuffix ==
    (/\ Done
     /\ ~InRules(<<"*">>) /\ ~InRules(query)
     /\ Cardinality(HitBases(query)) >= 2)
        => result = WildHit(Wild(LongestOf(HitBases(query))))

C2_Witness ==
    /\ Done
    /\ Len(rules) = 2
    /\ Len(rules[1]) < Len(rules[2])
    /\ Cardinality(HitBases(query)) >= 2
    /\ result = WildHit(rules[2])

\* C3: without the catch-all, a query equal to an exact rule q returns Exact
\* on q, whichever wildcard rules cover q
C3_ExactOverWildcard ==
    (/\ Done
     /\ ~InRules(<<"*">>)
     /\ query \in Bases /\ InRules(query))
        => result = ExactHit(query)

C3_Witness ==
    /\ Done
    /\ InRules(query)
    /\ HitBases(query) # {}
    /\ result = ExactHit(query)

\* C4: with the rule * in the list, every query whose normalized name is
\* non-empty matches with Rule * and Type Wildcard
C4_CatchAllDominance ==
    (Done /\ InRules(<<"*">>) /\ normalizeDomain(query) # EmptyStr)
        => result = WildHit(<<"*">>)

C4_Witness ==
    /\ Done
    /\ InRules(<<"*">>) /\ InRules(query)
    /\ query \in Bases
    /\ result = WildHit(<<"*">>)

\* C5: a query whose normalized name is empty is never matched, whatever the
\* rule list (the catch-all included)
C5_EmptyNameSafety ==
    (Done /\ normalizeDomain(query) = EmptyStr) => ~result.Matched

C5_Witness ==
    /\ Done
    /\ InRules(<<"*">>)
    /\ query = <<" ">>
    /\ ~result.Matched

\* a rule with the name it carries re-spelled by f; the catch-all and blank
\* rules carry no name
Respell(f(_), r) ==
    IF r = <<"*">> \/ r = EmptyStr THEN r
    ELSE IF HasWildPrefix(r) THEN Wild(f(TrimWildPrefix(r)))
    ELSE f(r)

AddDot(n) == n \o <<".">>

RespellAll(f(_), rs) == [i \in 1..Len(rs) |-> Respell(f, rs[i])]

\* C6: Match(R, n) = Match(R, normalize(n)), normalize is idempotent, and a
\* rule list re-spelled in upper case or with a trailing dot matches the same
C6_CaseDotIdempotence ==
    Done =>
        /\ result = Match(matcher, normalizeDomain(query))
        /\ normalizeDomain(normalizeDomain(query)) = normalizeDomain(query)
        /\ Match(BuildMatcher(RespellAll(ToUpper, rules)), query) = result
        /\ Match(BuildMatcher(RespellAll(AddDot, rules)), query) = result

\* the lists obtained from rs by swapping two entries or repeating one
Rearranged(rs) ==
    {[k \in 1..Len(rs) |-> IF k = i THEN rs[j] ELSE IF k = j THEN rs[i] ELSE rs[k]] :
        i \in 1..Len(rs), j \in 1..Len(rs)}
    \cup {rs \o <<rs[i]>> : i \in 1..Len(rs)}
    \cup {<<rs[i]>> \o rs : i \in 1..Len(rs)}
    \cup {SubSeq(rs, 1, i) \o SubSeq(rs, i, Len(rs)) : i \in 1..Len(rs)}

\* C7: a permuted rule list and a list with repeated entries build matchers
\* that return the same MatchResult
C7_OrderAndDuplicates ==
    Done => \A rs \in Rearranged(rules) :
                Match(BuildMatcher(rs), query) = result

C7_Witness ==
    /\ Done
    /\ Len(rules) = 2 /\ rules[1] # rules[2]
    /\ InRules(<<"*">>)
    /\ result.Matched

(***************************************************************************)
(* Properties of the query pipeline (checked under Spec)                   *)
(***************************************************************************)
Started(r) == r.proto # "none"

\* C8: a worker that wrote NXDOMAIN did no upstream I/O and a worker that
\* started upstream I/O wrote no NXDOMAIN; upstream I/O starts only after the
\* block/allow decision; a query gets at most one response
C8_BlockForwardExclusive ==
    \A w \in Workers :
        LET r == workers[w] IN
        /\ ~(r.nx /\ r.up)
        /\ (r.up => r.decided)
        /\ (r.nx => r.decided)
        /\ r.resp <= 1

C8_Witness ==
    \E w \in Workers :
        LET r == workers[w] IN
        /\ r.pc = "done" /\ r.exit = "blocked"
        /\ r.nx /\ r.resp = 1 /\ ~r.up

\* C9: a UDP or TCP query that matches while the dry-run flag is true gets no
\* NXDOMAIN and goes on to the forwarding step
C9_DryRunBothProtocols ==
    \A w \in Workers :
        LET r == workers[w] IN
        (r.decided /\ r.matched /\ r.dry) =>
            /\ ~r.nx
            /\ r.pc \notin {"nxbody"}
            /\ r.exit \notin {"blocked"}

\* C10: a datagram or TCP message whose parsed domain is empty, whatever its
\* length, gets no response and starts no upstream I/O
C10_ParseErrorsDrop ==
    \A w \in Workers :
        LET r == workers[w] IN
        (Started(r) /\ ParseQuery(r.q) = EmptyStr) =>
            /\ r.resp = 0
            /\ ~r.up
            /\ r.pc \notin {"dial", "doh", "upwritelen", "upwrite", "upreadlen",
                             "upread", "replylen", "reply"}

(***************************************************************************)
(* Properties of concurrent queries (checked under SpecQueries)           *)
(***************************************************************************)
UpstreamFailures == {"upstream_dial", "upstream_write", "upstream_read"}

\* a step in which worker w returns with an upstream failure
FailsUpstream(w) ==
    /\ workers[w].exit = "none"
    /\ workers'[w].exit \in UpstreamFailures

\* C11: a worker whose upstream dial, write, read or DoH round-trip failed has
\* returned without any response written to the client, and the step in which
\* it fails changes no other worker and none of the shared handler state
C11_UpstreamFailuresSilent ==
    /\ [](\A w \in Workers :
            LET r == workers[w] IN
            r.exit \in UpstreamFailures =>
                r.pc = "done" /\ r.resp = 0 /\ ~r.nx /\ r.upconn # "open")
    /\ [][\A w \in Workers :
            FailsUpstream(w) =>
                /\ \A v \in Workers \ {w} : workers'[v] = workers[v]
                /\ UNCHANGED <<hvars, cfgvars, updateChannel>>]_vars

\* one query has failed upstream and another one has been answered
C11_Witness ==
    \E w, v \in Workers :
        /\ workers[w].exit \in UpstreamFailures
        /\ workers[w].up
        /\ workers[v].exit = "allowed"
        /\ workers[v].resp = 1

(***************************************************************************)
(* Properties of the hot swap (checked under Spec and SpecRounds)         *)
(***************************************************************************)
\* the worker has read the holder
Obtained(r) == r.pc = "decide" \/ r.decided

\* the matcher that was active when snap matchers had been published
SnapshotAt(snap) == IF snap = 0 THEN BuildMatcher(<<>>) ELSE published[snap]

\* C12: a matcher obtained by a worker is the bootstrap matcher or one that
\* had been passed to UpdateMatcher before the read, and every matcher passed
\* to UpdateMatcher is the complete BuildMatcher of a list the fetcher sent
C12_HotSwapSnapshot ==
    /\ \A w \in Workers :
        LET r == workers[w] IN
        Obtained(r) =>
            /\ r.snap <= Len(published)
            /\ r.m = SnapshotAt(r.snap)
    /\ \A i \in DOMAIN published :
        \E j \in DOMAIN sent : published[i] = BuildMatcher(sent[j].list)

\* a worker holds a published matcher that is not the bootstrap matcher
C12_Witness ==
    \E w \in Workers :
        /\ Obtained(workers[w])
        /\ workers[w].snap > 0
        /\ workers[w].m # BuildMatcher(<<>>)

\* C13: the decision of a worker is the Match of its name on the one matcher
\* it read from the holder, whatever has been published since
C13_SingleSnapshot ==
    \A w \in Workers :
        LET r == workers[w] IN
        r.decided =>
            LET res == Match(SnapshotAt(r.snap), r.domain) IN
            /\ r.matched = res.Matched
            /\ r.rule = res.Rule

\* a matcher was published between the read and the decision, and it would
\* have decided the query the other way
C13_Witness ==
    \E w \in Workers :
        LET r == workers[w] IN
        /\ r.decided
        /\ r.snap < Len(published)
        /\ Match(hMatcher, r.domain).Matched # r.matched

\* the lists that are sent and not yet published: the one the consumer
\* holds, then the ones in the channel
InFlight == (IF cpc = "recv" THEN <<>> ELSE <<cList>>) \o updateChannel

\* C14: the k-th matcher passed to UpdateMatcher is the BuildMatcher of the
\* k-th list sent on the update channel and of nothing else, the active
\* matcher is the last one published, and the lists sent but not yet
\* published are held, in order, by the consumer and the channel
C14_UpdatesInOrder ==
    /\ Len(published) <= Len(sent)
    /\ \A i \in DOMAIN published : published[i] = BuildMatcher(sent[i].list)
    /\ hMatcher = SnapshotAt(Len(published))
    /\ Len(InFlight) = Len(sent) - Len(published)
    /\ \A i \in DOMAIN InFlight : InFlight[i] = sent[Len(published) + i].list

\* two different lists were sent and both have been published
C14_Witness ==
    /\ Len(published) = 2
    /\ published[1] # published[2]
    /\ published[1] # BuildMatcher(<<>>)

(***************************************************************************)
(* Properties of the fetch fallbacks                                       *)
(***************************************************************************)
\* where a worker is while it forwards a query
ForwardPcs ==
    {"mode", "modelocked", "doh", "dial", "upwritelen", "upwrite", "upreadlen",
     "upread", "replylen", "reply"}

\* the query of r arrived when the latest fetch had failed and returned, and
\* no fetch has started since
AfterFailedFetch(r) == r.born = "failed" /\ r.tick = fetches

\* C15: in mode strict, a query with a non-empty name that arrives when the
\* latest fetch has failed and returned matches with rule *
C15_StrictFallback ==
    \A w \in Workers :
        LET r == workers[w] IN
        (opMode = "strict" /\ AfterFailedFetch(r) /\ r.decided
                          /\ r.domain # EmptyStr) =>
            r.matched /\ r.rule = <<"*">>

\* C16: a query with a non-empty name that is decided on a matcher published
\* from the list of a failed strict fetch is answered with NXDOMAIN and is not
\* forwarded
C16_StrictFailsClosed ==
    \A w \in Workers :
        LET r == workers[w] IN
        (r.decided /\ r.snap > 0 /\ sent[r.snap].from = "failure"
                   /\ r.domain # EmptyStr) =>
            r.nx /\ ~r.up /\ r.pc \notin ForwardPcs

\* C17: in mode balance, a query that arrives when the latest fetch has failed
\* and returned and whose name matches is forwarded, not answered with NXDOMAIN
C17_BalanceFallback ==
    \A w \in Workers :
        LET r == workers[w] IN
        (opMode = "balance" /\ AfterFailedFetch(r) /\ r.decided /\ r.matched) =>
            ~r.nx /\ r.exit # "blocked"

\* a step in which fetchPolicies fails
FailedFetch ==
    /\ fetches' = fetches + 1
    /\ flog'.outcome = "failed"

\* C18: a fetch that fails in a mode other than strict and balance returns at
\* once, sends nothing and leaves the matcher, dry-run flag, DoH mode, DoH
\* client, TLS data and fetch interval as they were
C18_NoOverrideOtherModes ==
    [][(FailedFetch /\ opMode \notin {"strict", "balance"}) =>
            /\ fpc' = "idle"
            /\ UNCHANGED <<hvars, cfgvars, updateChannel, sent, published>>]_vars

\* a fetch has failed in another mode after a policy was published
C18_Witness ==
    /\ opMode = "other"
    /\ flog.outcome = "failed"
    /\ fetches = 2
    /\ hMatcher # BuildMatcher(<<>>)
    /\ cfgDryRun

\* how often ev occurs in the event list evs
Count(evs, ev) == Cardinality({i \in DOMAIN evs : evs[i] = ev})

\* the fetch has passed the TLS step
PastTls == fpc \in {"send", "finish", "idle"}

\* C19: a fetch calls the TLS callback once when it succeeded with doh = true
\* and tlsData in the response, and never otherwise
C19_TlsCallbackCount ==
    LET n == Count(flog.events, "tls") IN
    /\ n <= 1
    /\ (flog.outcome = "ok" /\ flog.doh /\ flog.hasTLS /\ PastTls) => n = 1
    /\ ~(flog.outcome = "ok" /\ flog.doh /\ flog.hasTLS) => n = 0

\* a successful fetch with doh and tlsData has returned
C19_Witness ==
    /\ fpc = "idle"
    /\ flog.outcome = "ok"
    /\ flog.doh
    /\ flog.hasTLS
    /\ Count(flog.events, "tls") = 1

\* C20: a successful fetch calls the DoH callback once, with the policy's doh
\* value, as its first call (before the TLS callback and the send), and when
\* it has returned the handler's and the config's DoH mode are that value; a
\* failed fetch does not call it
C20_DohCallbackEverySuccess ==
    LET n == Count(flog.events, "doh(true)") + Count(flog.events, "doh(false)") IN
    /\ flog.outcome # "ok" => n = 0
    /\ (flog.outcome = "ok" /\ fpc = "doh") => flog.events = <<>>
    /\ (flog.outcome = "ok" /\ fpc # "doh") =>
            /\ n = 1
            /\ flog.events[1] = DohEvent(flog.doh)
    /\ (flog.outcome = "ok" /\ fpc = "idle") =>
            /\ hHTTPSMode = flog.doh
            /\ cfgHTTPSMode = flog.doh
            /\ flog.events[Len(flog.events)] = "send"

\* a process started with -https-mode has fetched a policy with doh = false
C20_Witness ==
    /\ fpc = "idle"
    /\ flog.outcome = "ok"
    /\ ~flog.doh
    /\ hDoHClient.paths
    /\ ~hHTTPSMode
    /\ ~cfgHTTPSMode

(***************************************************************************)
(* Properties of the DoH mode and the DoH client                           *)
(***************************************************************************)
\* the query of r arrived while no fetch was in progress, and no fetch has
\* started since: no SetHTTPSMode call overlaps it
Undisturbed(r) == r.born # "running" /\ r.tick = fetches

\* C21: a query that runs while no mode update does is forwarded over DoH
\* exactly when the handler's flag is set, and a query that arrived after a
\* successful fetch returned uses DoH exactly when that policy's doh is true
C21_ModeRereadPerQuery ==
    \A w \in Workers :
        LET r == workers[w] IN
        (r.route # "none" /\ Undisturbed(r)) =>
            /\ (r.route = "doh") = hHTTPSMode
            /\ r.born = "ok" => ((r.route = "doh") = flog.doh)

\* a process started without -https-mode forwards a query over DoH after a
\* policy turned the mode on
C21_Witness ==
    \E w \in Workers :
        /\ workers[w].route = "doh"
        /\ workers[w].born = "ok"
        /\ Undisturbed(workers[w])
        /\ ~flog.hasTLS
        /\ ~hDoHClient.paths

\* the TLS material a DoH client was built from
Material(c) == [cert |-> c.cert, key |-> c.key, ca |-> c.ca]

\* the clients Handler.initDoHClient("", "") can build from the TLS data tls
Builds(tls) == {initDoHClient(tls, FALSE, filesOk) : filesOk \in env.files}

\* client c is one that a construction from the TLS data tls gives, whatever
\* key pair paths it was given
BuiltFrom(c, tls) ==
    \E b \in Builds(tls) : Material(c) = Material(b) /\ c.loaded = b.loaded

\* C22: a step that turns the handler's DoH mode on leaves a client built from
\* the TLS material the config holds at that moment; a step that turns it off
\* leaves the client alone; and UpdateTLSConfig in DoH mode rebuilds the
\* client from the stored material
C22_ModeStateMachine ==
    [][/\ (~hHTTPSMode /\ hHTTPSMode') =>
            /\ hDoHClient'.set
            /\ BuiltFrom(hDoHClient', cfgTLS)
       /\ (hHTTPSMode /\ ~hHTTPSMode') => hDoHClient' = hDoHClient
       /\ (hHTTPSMode /\ fpc = "tlslocked" /\ fpc' = "send") =>
            hDoHClient' \in Builds(cfgTLS)]_vars

\* C23: a query that uses the DoH client uses a client whose construction
\* has finished, under any interleaving with SetHTTPSMode and UpdateTLSConfig
C23_WholeClient ==
    \A w \in Workers : workers[w].used # "partial"

\* C35: outside the write lock DoH mode on means a client is set; a client
\* once set is never reset to nil; and a query routed to DoH never finds the
\* client nil
C35_ModeImpliesClient ==
    /\ []((mu.writer = "none" /\ hHTTPSMode) => hDoHClient.set)
    /\ [](\A w \in Workers :
            (workers[w].route = "doh" /\ workers[w].pc # "doh") =>
                workers[w].used # "none")
    /\ [][hDoHClient.set => hDoHClient'.set]_vars

\* a query went over DoH, and the mode has been turned off since while the
\* client stays allocated
C35_Witness ==
    \E w \in Workers :
        /\ workers[w].route = "doh"
        /\ workers[w].used # "none"
        /\ ~hHTTPSMode
        /\ hDoHClient.set
        /\ fpc = "idle"

(***************************************************************************)
(* Properties of the fetch interval                                        *)
(***************************************************************************)
\* C24: once a successful fetch has returned, the period of the ticker that
\* schedules the following fetches is the interval the fetcher stored
C24_IntervalReachesSchedule ==
    (fpc = "idle" /\ flog.outcome = "ok") => ticker = cfgFetchInterval

\* C25: once a successful fetch of a policy with interval k has returned, the
\* stored fetch interval is k seconds
C25_IntervalInSeconds ==
    (fpc = "idle" /\ flog.outcome = "ok") =>
        cfgFetchInterval = DurationSeconds(flog.interval)

(***************************************************************************)
(* Properties of the update channel                                        *)
(***************************************************************************)
\* C28: the update channel never holds more than ChanCap lists, and every
\* list sent is published, received and about to be published, or still in
\* the channel
C28_BoundedChannel ==
    /\ Len(updateChannel) <= ChanCap
    /\ Len(sent) = Len(published) + Len(InFlight)
    /\ \A i \in 1..Len(updateChannel) :
            updateChannel[i] = sent[Len(sent) - Len(updateChannel) + i].list

\* the channel is full and the fetcher stands at its next send
C28_Witness ==
    /\ Len(updateChannel) = ChanCap
    /\ fpc = "send"
    /\ ~ENABLED SendList
    /\ published = <<>>

(***************************************************************************)
(* Properties of the handler's lock                                        *)
(***************************************************************************)
\* C29: a worker about to read the matcher never has to wait (for a
\* publication or a DoH or TLS update that holds the lock), and the publisher
\* about to store a matcher never has to wait for a reader
C29_LockFreeReads ==
    /\ \A w \in Workers :
            workers[w].pc = "getmatcher" => ENABLED GetMatcherLock(w)
    /\ cpc = "publish" => ENABLED ConsumerLock

(***************************************************************************)
(* Properties of message sizes and connections                             *)
(***************************************************************************)
\* C26: the length prefix a TCP worker wrote before a payload announces the
\* number of payload bytes it wrote
C26_TCPFraming ==
    \A w \in Workers :
        LET r == workers[w] IN
        (r.proto = "tcp" /\ r.out >= 0) => r.pfx = r.out

\* C27: a datagram a UDP worker wrote to its client has at most 512 bytes
C27_UDPSizeLimit ==
    \A w \in Workers :
        LET r == workers[w] IN
        (r.proto = "udp" /\ r.out >= 0) => r.out <= UDPBufLen

\* C30: a TCP worker that has returned has closed its client connection and
\* the upstream connection it dialed, if any
C30_ConnectionCleanup ==
    \A w \in Workers :
        LET r == workers[w] IN
        (r.proto = "tcp" /\ r.pc = "done") =>
            /\ r.conn = "closed"
            /\ r.upconn # "open"
            /\ (r.upconn = "closed") <=>
                    (/\ r.exit \in {"upstream_write", "upstream_read",
                                    "client_write", "allowed"}
                     /\ r.route = "plain")

\* a TCP worker has returned after a failed read from the upstream it dialed,
\* beside one that returned on a parse error
C30_Witness ==
    \E v, w \in Workers :
        /\ workers[v].proto = "tcp"
        /\ workers[v].pc = "done"
        /\ workers[v].exit = "upstream_read"
        /\ workers[v].upconn = "closed"
        /\ workers[w].proto = "tcp"
        /\ workers[w].pc = "done"
        /\ workers[w].upconn = "none"
        /\ workers[w].conn = "closed"

\* C31: a handler started in DoH mode holds a client; every step that turns
\* the mode on or runs UpdateTLSConfig in DoH mode leaves a client set, also
\* when the TLS material does not load; and a client whose material did not
\* load runs on the default TLS configuration
C31_TLSLoadFallback ==
    /\ []((fetches = 0 /\ hHTTPSMode) => hDoHClient.set)
    /\ []((hDoHClient.set /\ ~hDoHClient.loaded) =>
                Material(hDoHClient) = EmptyTLS)
    /\ [][/\ (~hHTTPSMode /\ hHTTPSMode') => hDoHClient'.set
          /\ (hHTTPSMode /\ fpc = "tlslocked" /\ fpc' = "send") =>
                /\ hDoHClient'.set
                /\ (cfgTLS.cert # "" /\ cfgTLS.key # "" /\ ~Parses(cfgTLS.key)) =>
                        /\ ~hDoHClient'.loaded
                        /\ Material(hDoHClient') = EmptyTLS]_vars

\* UpdateTLSConfig has installed a client for a stored key pair that does not
\* parse
C31_Witness ==
    /\ hHTTPSMode
    /\ fpc = "send"
    /\ Count(flog.events, "tls") = 1
    /\ cfgTLS.key = "x"
    /\ hDoHClient.set
    /\ ~hDoHClient.loaded

(***************************************************************************)
(* Properties of the TLS material                                          *)
(***************************************************************************)
\* the fetcher stands outside the DoH callback and the TLS callback
NoCallback == fpc \in {"idle", "failsend", "send", "finish"}

\* C36: whenever DoH mode is on and no DoH or TLS callback is in progress,
\* the handler's client is the one built from the certificate, key and CA
\* data the config holds
C36_ClientMatchesStoredTLS ==
    (hHTTPSMode /\ NoCallback) =>
        BuiltFrom(hDoHClient, cfgTLS)

\* C37: a TLS callback whose UpdateTLSData call returns an error leaves the
\* stored certificate, key and CA data as they were
C37_UpdateTLSDataAllOrNothing ==
    [][(/\ fpc = "tls"
        /\ fresp.doh /\ fresp.tls.present
        /\ UpdateTLSData(cfgTLS, fresp.tls).err) => cfgTLS' = cfgTLS]_vars

(***************************************************************************)
(* Properties of the dry-run flag and of the lock discipline               *)
(***************************************************************************)
\* C34: once a successful fetch has returned and every list sent has been
\* published, the handler's dry-run flag is the dryrun of that fetch's policy
C34_DryRunReachesHandler ==
    (/\ fpc = "idle"
     /\ flog.outcome = "ok"
     /\ InFlight = <<>>
     /\ Len(published) = Len(sent)) => hDryRun = flog.dryrun

\* C32: a worker about to read the DoH client, the DoH-mode flag or the
\* dry-run flag holds the read lock, and the fetcher or the consumer about to
\* write one of them holds the write lock
C32_LockDiscipline ==
    /\ \A w \in Workers :
            (\/ workers[w].pc \in {"doh", "modelocked"}
             \/ (workers[w].pc = "decide" /\ workers[w].proto = "udp"))
                => w \in mu.readers
    /\ fpc \in {"dohlocked", "tlslocked"} => mu.writer = "fetcher"
    /\ cpc = "setdry" => mu.writer = "consumer"

(***************************************************************************)
(* Properties of the TCP reads                                             *)
(***************************************************************************)
\* C33: a TCP worker never gives up on a client message because a Read
\* returned a piece of it, and a response it relays from a TCP upstream that
\* announced L bytes has L bytes
C33_TCPExactReads ==
    \A w \in Workers :
        LET r == workers[w] IN
        r.proto = "tcp" =>
            /\ r.exit # "short"
            /\ (r.route = "plain" /\ r.out >= 0 /\ r.ulen >= 0) => r.out = r.ulen

(***************************************************************************)
(* Properties of the updates under fair scheduling                         *)
(***************************************************************************)
\* the fetcher has made its last fetch
FetchingOver == fpc = "idle" /\ fetches = env.fetches

\* the last two fetches of a strict run: one that failed and sent the
\* catch-all rule, then one that succeeded and sent its list
StrictRecovered ==
    /\ opMode = "strict"
    /\ FetchingOver
    /\ flog.outcome = "ok"
    /\ Len(sent) >= 2
    /\ sent[Len(sent) - 1].from = "failure"
    /\ sent[Len(sent)].from = "policy"

\* the list of the latest send, none before the first
LastSent == IF sent = <<>> THEN <<>> ELSE sent[Len(sent)].list

\* C38: in strict mode, once a failed fetch has been followed by a successful
\* one with list L and no fetch comes after it, the active matcher eventually
\* is the one built from L, and stays so
C38_StrictFallbackNotSticky ==
    [](StrictRecovered =>
            <>[](hMatcher = BuildMatcher(LastSent)))

\* the catch-all matcher of the failed fetch was active, and the matcher of
\* the list that followed has replaced it
C38_Witness ==
    /\ StrictRecovered
    /\ InFlight = <<>>
    /\ Len(published) = Len(sent)
    /\ published[Len(published) - 1].matchAll
    /\ hMatcher = BuildMatcher(sent[Len(sent)].list)
    /\ ~hMatcher.matchAll
    /\ hMatcher.exact # {}

\* the fetcher waits in a channel send that cannot proceed
SendBlocked == fpc \in {"send", "failsend"} /\ Len(updateChannel) = ChanCap

\* every matcher published so far was built from the list sent in its place
PublishedInOrder ==
    /\ Len(published) <= Len(sent)
    /\ \A n \in 1..Len(published) : published[n] = BuildMatcher(sent[n].list)

\* C39: with the update consumer scheduled fairly, the lists are built and
\* published in the order they were sent, and again and again either every
\* list sent has been published or one more is being published, so that
\* every list sent is eventually published; and the fetcher never waits
\* forever in a send on a full channel
C39_UpdatesEventuallyPublished ==
    /\ []PublishedInOrder
    /\ \/ []<>(Len(published) = Len(sent))
       \/ []<><<Len(published') > Len(published)>>_vars
    /\ []<>(~SendBlocked)

\* a burst has filled the channel behind a busy consumer, and every list of
\* it has been published since
C39_Witness ==
    /\ FetchingOver
    /\ Len(sent) > ChanCap
    /\ InFlight = <<>>
    /\ Len(published) = Len(sent)
    /\ PublishedInOrder

(***************************************************************************)
(* Properties of the UDP listener                                          *)
(***************************************************************************)
\* UDP worker w works on the bytes of message d: it holds them, the name it
\* matches was parsed from them, what it has forwarded is them, and an
\* NXDOMAIN response it has written echoes their question
WorksOn(w, d) ==
    LET r == workers[w] IN
    /\ r.q = d
    /\ r.pc \notin {"parse", "done"} => r.domain = ParseQuery(d)
    /\ r.fwd # NoQuery => r.fwd = d
    /\ (r.nx /\ r.out >= 0) => r.out = CreateNXDomainResponse(d)

\* C40 as stated: a UDP worker works on exactly the bytes of the datagram it
\* was spawned for
C40_DatagramBytes ==
    \A w \in Workers :
        workers[w].proto = "udp" => WorksOn(w, workers[w].arrived)

\* C40: a UDP worker works on exactly the bytes the listener read for its
\* datagram (the datagram, cut to 512 bytes when it is longer), whatever the
\* listener has read into its buffer since
C40_UDPQueryIsolation ==
    \A w \in Workers :
        workers[w].proto = "udp" => WorksOn(w, ReadFromUDP(workers[w].arrived))

\* a UDP worker has forwarded its query and is still running while the
\* buffer of the listener holds a later, different datagram
C40_Witness ==
    \E w \in Workers :
        /\ workers[w].proto = "udp"
        /\ workers[w].pc \notin {"free", "done"}
        /\ workers[w].fwd = workers[w].q
        /\ workers[w].q.len >= HeaderLen
        /\ udpBuffer # workers[w].q
        /\ \E v \in Workers : v # w /\ workers[v].proto = "udp"
                                    /\ workers[v].q = udpBuffer

====
